---- MODULE Spec2Model ----
(***************************************************************************)
(* A model of the Python server SDK of mcp-ui (package mcp_ui_server):     *)
(* create_ui_resource and the five ui_action_result_* constructors of      *)
(* core.py, validate_uri and the action-result serialization of utils.py,  *)
(* over the schema of types.py.                                            *)
(*                                                                         *)
(* Representation of Python values:                                        *)
(*   - a content string (htmlString, iframeUrl, script, text) is a         *)
(*     sequence of Unicode code points, so that UTF-8 and base64 are       *)
(*     computed and not assumed;                                           *)
(*   - a uri, a MIME type, an exception message, a base64 blob and the     *)
(*     arguments of the action-result constructors are TLA+ strings;       *)
(*   - a dict or a pydantic model is a record whose DOMAIN is its keys; a  *)
(*     value of type Any carries its Python type (PyStr, PyList, ...);     *)
(*   - None is the empty sequence, an optional value v is <<v>>;           *)
(*   - the local variables of a call are a record that grows as the code   *)
(*     binds them: a local the code has not assigned is not in its DOMAIN. *)
(***************************************************************************)
EXTENDS Integers, Sequences, FiniteSets, TLC

VARIABLES pc, op, args, result, heap, calls

vars == <<pc, op, args, result, heap, calls>>

None == <<>>

Some(v) == <<v>>

(***************************************************************************)
(* Bounds of the model.                                                    *)
(***************************************************************************)
MaxStrLen == 2

MaxUriTail == 2

NumCallers == 2

(***************************************************************************)
(* Python str operations used by the code.                                 *)
(***************************************************************************)
\* A variant of startswith that finds the prefix anywhere in s.
startswith_Anywhere(s, prefix) ==
    \E i \in 0..(Len(s) - Len(prefix)) :
        SubSeq(s, i + 1, i + Len(prefix)) = prefix

\* str.startswith(prefix): case-sensitive, position 0.
startswith(s, prefix) ==
    /\ Len(s) >= Len(prefix)
    /\ SubSeq(s, 1, Len(prefix)) = prefix

\* A variant of IsFalsy that takes every string for a non-empty one.
IsFalsy_Never(s) == FALSE

\* `not s` for a str: true exactly for the empty string.
IsFalsy(s) == Len(s) = 0

\* str.encode('utf-8') of one code point; a lone surrogate (U+D800..U+DFFF)
\* has no UTF-8 form and Python raises UnicodeEncodeError.
IsSurrogate(cp) == cp >= 55296 /\ cp <= 57343

utf8_bytes(cp) ==
    IF cp < 128 THEN <<cp>>
    ELSE IF cp < 2048 THEN <<192 + (cp \div 64), 128 + (cp % 64)>>
    ELSE IF cp < 65536
         THEN <<224 + (cp \div 4096), 128 + ((cp \div 64) % 64), 128 + (cp % 64)>>
    ELSE <<240 + (cp \div 262144), 128 + ((cp \div 4096) % 64),
           128 + ((cp \div 64) % 64), 128 + (cp % 64)>>

RECURSIVE utf8_concat(_)
utf8_concat(s) ==
    IF Len(s) = 0 THEN <<>> ELSE utf8_bytes(Head(s)) \o utf8_concat(Tail(s))

\* s.encode('utf-8'): the bytes, or the UnicodeEncodeError.
encode_utf8(s) ==
    IF \E i \in 1..Len(s) : IsSurrogate(s[i])
    THEN [ok |-> FALSE, bytes |-> <<>>]
    ELSE [ok |-> TRUE, bytes |-> utf8_concat(s)]

\* base64.b64encode(...).decode('ascii'): RFC 4648 section 4, padded.
B64Alphabet == "ABCDEFGHIJKLMNOPQRSTUVWXYZabcdefghijklmnopqrstuvwxyz0123456789+/"

B64Char(i) == SubSeq(B64Alphabet, i + 1, i + 1)

\* A variant of b64encode that leaves the '=' padding out.
RECURSIVE b64encode_NoPadding(_)
b64encode_NoPadding(bs) ==
    IF Len(bs) = 0 THEN ""
    ELSE IF Len(bs) = 1
         THEN B64Char(bs[1] \div 4) \o B64Char((bs[1] % 4) * 16)
    ELSE IF Len(bs) = 2
         THEN B64Char(bs[1] \div 4)
              \o B64Char((bs[1] % 4) * 16 + (bs[2] \div 16))
              \o B64Char((bs[2] % 16) * 4)
    ELSE B64Char(bs[1] \div 4)
         \o B64Char((bs[1] % 4) * 16 + (bs[2] \div 16))
         \o B64Char((bs[2] % 16) * 4 + (bs[3] \div 64))
         \o B64Char(bs[3] % 64)
         \o b64encode_NoPadding(SubSeq(bs, 4, Len(bs)))

RECURSIVE b64encode(_)
b64encode(bs) ==
    IF Len(bs) = 0 THEN ""
    ELSE IF Len(bs) = 1
         THEN B64Char(bs[1] \div 4) \o B64Char((bs[1] % 4) * 16) \o "=="
    ELSE IF Len(bs) = 2
         THEN B64Char(bs[1] \div 4)
              \o B64Char((bs[1] % 4) * 16 + (bs[2] \div 16))
              \o B64Char((bs[2] % 16) * 4) \o "="
    ELSE B64Char(bs[1] \div 4)
         \o B64Char((bs[1] % 4) * 16 + (bs[2] \div 16))
         \o B64Char((bs[2] % 16) * 4 + (bs[3] \div 64))
         \o B64Char(bs[3] % 64)
         \o b64encode(SubSeq(bs, 4, Len(bs)))

(***************************************************************************)
(* pydantic.AnyUrl(uri), core.py lines 113 and 119.  AnyUrl parses its     *)
(* argument with the WHATWG URL parser (the Rust url crate behind          *)
(* pydantic-core) and holds the parsed, serialised URL; a string that does *)
(* not parse raises pydantic's ValidationError.  The code reaches AnyUrl   *)
(* only with a string that starts with 'ui://', a non-special scheme with  *)
(* an authority, so the model is the parser's path for such a string:      *)
(*   - trailing C0-control-or-space characters are stripped;               *)
(*   - the authority runs to the first '/'; it is host[:port];             *)
(*   - the host is opaque: kept as written, may be empty, and must hold    *)
(*     no forbidden host code point (of the model's characters: ' ');      *)
(*   - ':' after an empty host fails; a port must be digits and at most    *)
(*     65535, is serialised in decimal, and an empty port is dropped;      *)
(*   - the path is split at '/', '.' and '..' segments are resolved and a  *)
(*     space is percent-encoded.                                           *)
(***************************************************************************)
Char(s, i) == SubSeq(s, i, i)

IndexOf(s, c) ==
    IF \E i \in 1..Len(s) : Char(s, i) = c
    THEN CHOOSE i \in 1..Len(s) :
            /\ Char(s, i) = c
            /\ \A j \in 1..(i - 1) : Char(s, j) # c
    ELSE 0

RECURSIVE rstrip(_)
rstrip(s) ==
    IF Len(s) > 0 /\ Char(s, Len(s)) = " "
    THEN rstrip(SubSeq(s, 1, Len(s) - 1))
    ELSE s

DecimalDigits == "0123456789"

IsDigit(c) == \E d \in 1..10 : Char(DecimalDigits, d) = c

DigitVal(c) == (CHOOSE d \in 1..10 : Char(DecimalDigits, d) = c) - 1

MaxPort == 65535

\* The value of a string of digits, saturating above MaxPort.
RECURSIVE port_value(_, _)
port_value(digits, acc) ==
    IF Len(digits) = 0 THEN acc
    ELSE IF acc > MaxPort THEN acc
    ELSE port_value(Tail(digits), acc * 10 + DigitVal(Head(digits)))

RECURSIVE decimal(_)
decimal(n) ==
    IF n < 10 THEN Char(DecimalDigits, n + 1)
    ELSE decimal(n \div 10) \o Char(DecimalDigits, (n % 10) + 1)

\* The path percent-encode set, restricted to the characters of the model.
PathEscape(c) == IF c = " " THEN "%20" ELSE c

\* The path state of the URL parser: rest is the input after the path's
\* first '/', buf the segment being read, path the segments so far.
RECURSIVE url_path(_, _, _)
url_path(rest, buf, path) ==
    IF Len(rest) = 0 \/ Head(rest) = "/"
    THEN LET atEnd == Len(rest) = 0
             shortened == IF Len(path) > 0
                          THEN SubSeq(path, 1, Len(path) - 1)
                          ELSE path
             next == IF buf = ".."
                     THEN (IF atEnd THEN Append(shortened, "") ELSE shortened)
                     ELSE IF buf = "."
                     THEN (IF atEnd THEN Append(path, "") ELSE path)
                     ELSE Append(path, buf)
         IN  IF atEnd THEN next ELSE url_path(Tail(rest), "", next)
    ELSE url_path(Tail(rest), buf \o PathEscape(Head(rest)), path)

RECURSIVE serialize_path(_)
serialize_path(path) ==
    IF Len(path) = 0 THEN ""
    ELSE "/" \o Head(path) \o serialize_path(Tail(path))

UiScheme == "ui://"

AnyUrl(uri) ==
    LET input     == rstrip(uri)
        rest      == SubSeq(input, Len(UiScheme) + 1, Len(input))
        slash     == IndexOf(rest, "/")
        authority == IF slash = 0 THEN rest ELSE SubSeq(rest, 1, slash - 1)
        pathPart  == IF slash = 0 THEN "" ELSE SubSeq(rest, slash + 1, Len(rest))
        colon     == IndexOf(authority, ":")
        host      == IF colon = 0 THEN authority
                     ELSE SubSeq(authority, 1, colon - 1)
        port      == IF colon = 0 THEN ""
                     ELSE SubSeq(authority, colon + 1, Len(authority))
        hostOk    == /\ IndexOf(host, " ") = 0
                     /\ (colon # 0 => Len(host) > 0)
        portOk    == /\ \A i \in 1..Len(port) : IsDigit(Char(port, i))
                     /\ port_value(port, 0) <= MaxPort
        path      == IF slash = 0 THEN <<>> ELSE url_path(pathPart, "", <<>>)
    IN  IF hostOk /\ portOk
        THEN [ok  |-> TRUE,
              url |-> UiScheme \o host
                      \o (IF Len(port) = 0 THEN ""
                          ELSE ":" \o decimal(port_value(port, 0)))
                      \o serialize_path(path)]
        ELSE [ok |-> FALSE, url |-> ""]

(***************************************************************************)
(* types.py: the schema.  model_validate collects the locations that fail; *)
(* an options value is produced only when none does.                       *)
(***************************************************************************)
Frameworks == {"react", "webcomponents"}

Encodings == {"text", "blob"}

\* The content is an instance of a payload class, not a dict.  model_validate
\* does not validate an instance again (revalidate_instances is 'never'): an
\* instance of the field's class is the value as it stands, whatever its
\* attributes were set to after it was built.
IsInstance(c) == "cls" \in DOMAIN c

\* A variant of RawHtmlPayload whose type is any string.
RawHtmlPayload_AnyTag(c) ==
    IF IsInstance(c)
    THEN (IF c.cls = "RawHtmlPayload" THEN Some(c) ELSE None)
    ELSE
    IF "type" \in DOMAIN c /\ "htmlString" \in DOMAIN c
    THEN Some([cls |-> "RawHtmlPayload", type |-> c.type,
               htmlString |-> c.htmlString])
    ELSE None

\* RawHtmlPayload: type is the literal 'rawHtml', htmlString is required.
RawHtmlPayload(c) ==
    IF IsInstance(c)
    THEN (IF c.cls = "RawHtmlPayload" THEN Some(c) ELSE None)
    ELSE
    IF "type" \in DOMAIN c /\ c.type = "rawHtml" /\ "htmlString" \in DOMAIN c
    THEN Some([cls |-> "RawHtmlPayload", type |-> c.type,
               htmlString |-> c.htmlString])
    ELSE None

\* ExternalUrlPayload: type is the literal 'externalUrl', iframeUrl is required.
ExternalUrlPayload(c) ==
    IF IsInstance(c)
    THEN (IF c.cls = "ExternalUrlPayload" THEN Some(c) ELSE None)
    ELSE
    IF "type" \in DOMAIN c /\ c.type = "externalUrl" /\ "iframeUrl" \in DOMAIN c
    THEN Some([cls |-> "ExternalUrlPayload", type |-> c.type,
               iframeUrl |-> c.iframeUrl])
    ELSE None

\* A variant of RemoteDomPayload whose framework is any string.
RemoteDomPayload_AnyFramework(c) ==
    IF IsInstance(c)
    THEN (IF c.cls = "RemoteDomPayload" THEN Some(c) ELSE None)
    ELSE
    IF /\ "type" \in DOMAIN c /\ c.type = "remoteDom"
       /\ "script" \in DOMAIN c
       /\ "framework" \in DOMAIN c
    THEN Some([cls |-> "RemoteDomPayload", type |-> c.type,
               script |-> c.script, framework |-> c.framework])
    ELSE None

\* RemoteDomPayload: type is the literal 'remoteDom', script and framework are
\* required and framework is one of the two literals.
RemoteDomPayload(c) ==
    IF IsInstance(c)
    THEN (IF c.cls = "RemoteDomPayload" THEN Some(c) ELSE None)
    ELSE
    IF /\ "type" \in DOMAIN c /\ c.type = "remoteDom"
       /\ "script" \in DOMAIN c
       /\ "framework" \in DOMAIN c /\ c.framework \in Frameworks
    THEN Some([cls |-> "RemoteDomPayload", type |-> c.type,
               script |-> c.script, framework |-> c.framework])
    ELSE None

\* ResourceContentPayload: the union; the member that validates is the value.
ResourceContentPayload(c) ==
    IF RawHtmlPayload(c) # None THEN RawHtmlPayload(c)
    ELSE IF ExternalUrlPayload(c) # None THEN ExternalUrlPayload(c)
    ELSE RemoteDomPayload(c)

\* A variant of CreateUIResourceOptions whose encoding is any string.
CreateUIResourceOptions_AnyEncoding(d) ==
    LET content == IF "content" \in DOMAIN d
                   THEN ResourceContentPayload(d.content) ELSE None
        errors  == {f \in {"uri"} : f \notin DOMAIN d}
                   \cup {f \in {"content"} : content = None}
                   \cup {f \in {"encoding"} : f \notin DOMAIN d}
    IN  IF errors = {}
        THEN [ok |-> TRUE, errors |-> errors,
              value |-> [uri |-> d.uri, content |-> content[1],
                         encoding |-> d.encoding]]
        ELSE [ok |-> FALSE, errors |-> errors]

\* CreateUIResourceOptions.model_validate(options_dict).
CreateUIResourceOptions(d) ==
    LET content == IF "content" \in DOMAIN d
                   THEN ResourceContentPayload(d.content) ELSE None
        errors  == {f \in {"uri"} : f \notin DOMAIN d}
                   \cup {f \in {"content"} : content = None}
                   \cup {f \in {"encoding"} :
                            \/ f \notin DOMAIN d
                            \/ d.encoding \notin Encodings}
    IN  IF errors = {}
        THEN [ok |-> TRUE, errors |-> errors,
              value |-> [uri |-> d.uri, content |-> content[1],
                         encoding |-> d.encoding]]
        ELSE [ok |-> FALSE, errors |-> errors]

(***************************************************************************)
(* A call's frame: the locals bound so far and how the call stands.        *)
(* exc is None or <<[type, msg]>>, value is None or <<the value returned>>.*)
(***************************************************************************)
Frame(locals) ==
    [locals |-> locals, status |-> "running", exc |-> None, value |-> None]

Bind(f, name, v) == [f EXCEPT !.locals = (name :> v) @@ @]

Raise(f, type, msg) ==
    [f EXCEPT !.status = "raised", !.exc = Some([type |-> type, msg |-> msg])]

Return(f, v) == [f EXCEPT !.status = "returned", !.value = Some(v)]

\* A statement runs only if the call has neither raised nor returned.
Running(f) == f.status = "running"

(***************************************************************************)
(* core.py: create_ui_resource.                                            *)
(***************************************************************************)
MimeHtml == "text/html"

MimeUriList == "text/uri-list"

MimeRemoteDomReact ==
    "application/vnd.mcp-ui.remote-dom+javascript; framework=react"

MimeRemoteDomWebComponents ==
    "application/vnd.mcp-ui.remote-dom+javascript; framework=webcomponents"

\* mcp.types.TextResourceContents(uri=, mimeType=, text=)
TextResourceContents(uri, mimeType, text) ==
    [uri |-> uri, mimeType |-> mimeType, text |-> text, meta |-> None]

\* A variant of BlobResourceContents that files the blob under text.
BlobResourceContents_AsText(uri, mimeType, blob) ==
    [uri |-> uri, mimeType |-> mimeType, text |-> blob, meta |-> None]

\* mcp.types.BlobResourceContents(uri=, mimeType=, blob=)
BlobResourceContents(uri, mimeType, blob) ==
    [uri |-> uri, mimeType |-> mimeType, blob |-> blob, meta |-> None]

\* class UIResource(EmbeddedResource): type is always 'resource'.
UIResource(resource) ==
    [type |-> "resource", resource |-> resource,
     annotations |-> None, meta |-> None]

\* line 49: options = CreateUIResourceOptions.model_validate(options_dict)
ValidateOptions(f) ==
    LET r == CreateUIResourceOptions(f.locals.options_dict)
    IN  IF r.ok THEN Bind(f, "options", r.value)
        ELSE Raise(f, "ValidationError",
                   "validation error for CreateUIResourceOptions")

\* A variant of CheckUri whose message does not echo the uri.
CheckUri_NoEcho(f) ==
    IF ~startswith(f.locals.options.uri, "ui://")
    THEN Raise(f, "InvalidURIError", "URI must start with 'ui://'")
    ELSE f

\* lines 51-52: the uri prefix check.
CheckUri(f) ==
    IF ~startswith(f.locals.options.uri, "ui://")
    THEN Raise(f, "InvalidURIError",
               "URI must start with 'ui://' but got: " \o f.locals.options.uri)
    ELSE f

\* lines 54-55
BindContent(f) ==
    LET content == f.locals.options.content
    IN  Bind(Bind(f, "content", content), "content_type", content.type)

\* lines 58-68: the rawHtml branch.
RawHtmlBranch(f) ==
    LET content == f.locals.content
    IN  IF content.cls # "RawHtmlPayload"
        THEN Raise(f, "InvalidContentError",
                   "Content must be RawHtmlPayload when type is 'rawHtml'")
        ELSE LET f1 == Bind(f, "htmlString", content.htmlString)
             IN  IF IsFalsy(content.htmlString)
                 THEN Raise(f1, "InvalidContentError",
                       "htmlString must be provided as a non-empty string when content.type is 'rawHtml'")
                 ELSE Bind(Bind(f1, "actual_content_string", content.htmlString),
                           "mime_type", MimeHtml)

\* lines 70-80: the externalUrl branch.
ExternalUrlBranch(f) ==
    LET content == f.locals.content
    IN  IF content.cls # "ExternalUrlPayload"
        THEN Raise(f, "InvalidContentError",
                   "Content must be ExternalUrlPayload when type is 'externalUrl'")
        ELSE LET f1 == Bind(f, "iframe_url", content.iframeUrl)
             IN  IF IsFalsy(content.iframeUrl)
                 THEN Raise(f1, "InvalidContentError",
                       "content.iframeUrl must be provided as a non-empty string when content.type is 'externalUrl'")
                 ELSE Bind(Bind(f1, "actual_content_string", content.iframeUrl),
                           "mime_type", MimeUriList)

\* lines 82-102: the remoteDom branch.
RemoteDomBranch(f) ==
    LET content == f.locals.content
    IN  IF content.cls # "RemoteDomPayload"
        THEN Raise(f, "InvalidContentError",
                   "Content must be RemoteDomPayload when type is 'remoteDom'")
        ELSE LET f1 == Bind(Bind(f, "script", content.script),
                            "framework", content.framework)
             IN  IF IsFalsy(content.script)
                 THEN Raise(f1, "InvalidContentError",
                       "content.script must be provided as a non-empty string when content.type is 'remoteDom'")
                 ELSE IF content.framework \notin {"react", "webcomponents"}
                 THEN Raise(f1, "InvalidContentError",
                       "content.framework must be 'react' or 'webcomponents', got: "
                       \o content.framework)
                 ELSE Bind(Bind(f1, "actual_content_string", content.script),
                           "mime_type",
                           IF content.framework = "react"
                           THEN MimeRemoteDomReact
                           ELSE MimeRemoteDomWebComponents)

\* lines 58-106: the dispatch on content_type.
Dispatch(f) ==
    IF f.locals.content_type = "rawHtml" THEN RawHtmlBranch(f)
    ELSE IF f.locals.content_type = "externalUrl" THEN ExternalUrlBranch(f)
    ELSE IF f.locals.content_type = "remoteDom" THEN RemoteDomBranch(f)
    ELSE Raise(f, "InvalidContentError",
               "Invalid content.type specified: " \o f.locals.content_type)

\* A variant of EncodeText that puts a byte-order mark before the text.
EncodeText_WithBom(f) ==
    LET url == AnyUrl(f.locals.options.uri)
    IN  IF ~url.ok
        THEN Raise(f, "ValidationError", "validation error for AnyUrl")
        ELSE Bind(f, "resource",
                  TextResourceContents(url.url, f.locals.mime_type,
                      <<65279>> \o f.locals.actual_content_string))

\* lines 111-116: encoding == 'text'.
EncodeText(f) ==
    LET url == AnyUrl(f.locals.options.uri)
    IN  IF ~url.ok
        THEN Raise(f, "ValidationError", "validation error for AnyUrl")
        ELSE Bind(f, "resource",
                  TextResourceContents(url.url, f.locals.mime_type,
                                       f.locals.actual_content_string))

\* A variant of EncodeBlob that labels every blob application/octet-stream.
EncodeBlob_OctetStream(f) ==
    LET url   == AnyUrl(f.locals.options.uri)
        bytes == encode_utf8(f.locals.actual_content_string)
    IN  IF ~url.ok
        THEN Raise(f, "ValidationError", "validation error for AnyUrl")
        ELSE IF ~bytes.ok
        THEN Raise(f, "UnicodeEncodeError",
                   "'utf-8' codec can't encode character: surrogates not allowed")
        ELSE Bind(f, "resource",
                  BlobResourceContents(url.url, "application/octet-stream",
                                       b64encode(bytes.bytes)))

\* lines 117-122: encoding == 'blob'.  The arguments are evaluated in order:
\* AnyUrl first, the blob after it.
EncodeBlob(f) ==
    LET url   == AnyUrl(f.locals.options.uri)
        bytes == encode_utf8(f.locals.actual_content_string)
    IN  IF ~url.ok
        THEN Raise(f, "ValidationError", "validation error for AnyUrl")
        ELSE IF ~bytes.ok
        THEN Raise(f, "UnicodeEncodeError",
                   "'utf-8' codec can't encode character: surrogates not allowed")
        ELSE Bind(f, "resource",
                  BlobResourceContents(url.url, f.locals.mime_type,
                                       b64encode(bytes.bytes)))

\* lines 109-124: the dispatch on encoding.
Encode(f) ==
    LET f1 == Bind(f, "encoding", f.locals.options.encoding)
    IN  IF f1.locals.encoding = "text" THEN EncodeText(f1)
        ELSE IF f1.locals.encoding = "blob" THEN EncodeBlob(f1)
        ELSE Raise(f1, "InvalidContentError",
                   "Invalid encoding type: " \o f1.locals.encoding)

\* line 126
ReturnResource(f) == Return(f, UIResource(f.locals.resource))

\* A variant of create_ui_resource that checks the content before the uri.
create_ui_resource_ContentFirst(options_dict) ==
    LET f1 == ValidateOptions(Frame([options_dict |-> options_dict]))
        f2 == IF Running(f1) THEN BindContent(f1) ELSE f1
        f3 == IF Running(f2) THEN Dispatch(f2) ELSE f2
        f4 == IF Running(f3) THEN CheckUri(f3) ELSE f3
        f5 == IF Running(f4) THEN Encode(f4) ELSE f4
    IN  IF Running(f5) THEN ReturnResource(f5) ELSE f5

\* create_ui_resource(options_dict): the frame the call ends with.
create_ui_resource(options_dict) ==
    LET f1 == ValidateOptions(Frame([options_dict |-> options_dict]))
        f2 == IF Running(f1) THEN CheckUri(f1) ELSE f1
        f3 == IF Running(f2) THEN BindContent(f2) ELSE f2
        f4 == IF Running(f3) THEN Dispatch(f3) ELSE f3
        f5 == IF Running(f4) THEN Encode(f4) ELSE f4
    IN  IF Running(f5) THEN ReturnResource(f5) ELSE f5

(***************************************************************************)
(* core.py: the action-result constructors.  Each builds the pydantic      *)
(* model of types.py; messageId is the inherited field of                  *)
(* GenericActionMessage and is left at its default, None.                  *)
(***************************************************************************)
ui_action_result_tool_call(tool_name, params) ==
    [type |-> "tool",
     payload |-> [toolName |-> tool_name, params |-> params],
     messageId |-> None]

ui_action_result_prompt(prompt) ==
    [type |-> "prompt", payload |-> [prompt |-> prompt], messageId |-> None]

ui_action_result_link(url) ==
    [type |-> "link", payload |-> [url |-> url], messageId |-> None]

ui_action_result_intent(intent, params) ==
    [type |-> "intent",
     payload |-> [intent |-> intent, params |-> params],
     messageId |-> None]

\* A variant of ui_action_result_notification tagged 'notification'.
ui_action_result_notification_WrongTag(message) ==
    [type |-> "notification", payload |-> [message |-> message],
     messageId |-> None]

ui_action_result_notification(message) ==
    [type |-> "notify", payload |-> [message |-> message], messageId |-> None]

(***************************************************************************)
(* Python values of type Any (types.py: params is dict[str, Any]; utils.py *)
(* line 69: what json.loads returns).  A value carries its Python type, as *)
(* the code dispatches on it with isinstance and pydantic validates by it. *)
(***************************************************************************)
PyNone == [t |-> "none"]

PyBool(b) == [t |-> "bool", b |-> b]

PyInt(n) == [t |-> "int", n |-> n]

PyStr(s) == [t |-> "str", s |-> s]

PyList(items) == [t |-> "list", items |-> items]

PyTuple(items) == [t |-> "tuple", items |-> items]

PyDict(d) == [t |-> "dict", d |-> d]

(***************************************************************************)
(* JSON text.  model_dump_json writes compact JSON: no spaces, the strings *)
(* escaped, a tuple written as an array like a list.                       *)
(***************************************************************************)
\* The escape of one character inside a JSON string.
json_escape(c) ==
    IF c = "\"" THEN "\\\""
    ELSE IF c = "\\" THEN "\\\\"
    ELSE IF c = "\n" THEN "\\n"
    ELSE IF c = "\t" THEN "\\t"
    ELSE c

RECURSIVE json_escaped(_)
json_escaped(s) ==
    IF Len(s) = 0 THEN ""
    ELSE json_escape(Char(s, 1)) \o json_escaped(SubSeq(s, 2, Len(s)))

\* A variant of json_string that writes the characters unescaped.
json_string_Unescaped(s) == "\"" \o s \o "\""

json_string(s) == "\"" \o json_escaped(s) \o "\""

RECURSIVE json_value(_), json_items(_), json_members(_)
json_value(v) ==
    IF v.t = "none" THEN "null"
    ELSE IF v.t = "bool" THEN (IF v.b THEN "true" ELSE "false")
    ELSE IF v.t = "int"
         THEN (IF v.n < 0 THEN "-" \o decimal(0 - v.n) ELSE decimal(v.n))
    ELSE IF v.t = "str" THEN json_string(v.s)
    ELSE IF v.t \in {"list", "tuple"} THEN "[" \o json_items(v.items) \o "]"
    ELSE "{" \o json_members(v.d) \o "}"

json_items(items) ==
    IF Len(items) = 0 THEN ""
    ELSE IF Len(items) = 1 THEN json_value(items[1])
    ELSE json_value(items[1]) \o "," \o json_items(Tail(items))

\* The members of a dict, one key after the other.
json_members(d) ==
    IF DOMAIN d = {} THEN ""
    ELSE LET k    == CHOOSE key \in DOMAIN d : TRUE
             rest == [key \in DOMAIN d \ {k} |-> d[key]]
         IN  json_string(k) \o ":" \o json_value(d[k])
             \o (IF DOMAIN rest = {} THEN "" ELSE "," \o json_members(rest))

(***************************************************************************)
(* json.loads: a recursive-descent reading of the text from position i.    *)
(* A reading is [ok |-> TRUE, v, next] or [ok |-> FALSE, at] where at is   *)
(* the position of the JSONDecodeError.  Numbers are the integers; the     *)
(* texts read here hold no fraction, exponent or \u escape.                *)
(***************************************************************************)
JsonWhitespace == {" ", "\n", "\t"}

RECURSIVE skip_ws(_, _)
skip_ws(s, i) ==
    IF i <= Len(s) /\ Char(s, i) \in JsonWhitespace THEN skip_ws(s, i + 1)
    ELSE i

DecodeError(i) == [ok |-> FALSE, at |-> i]

Decoded(v, next) == [ok |-> TRUE, v |-> v, next |-> next]

\* Is the literal word at position i of s?
LiteralAt(s, i, word) ==
    i + Len(word) - 1 <= Len(s) /\ SubSeq(s, i, i + Len(word) - 1) = word

\* What an escape letter stands for, "" when it is no escape.
json_unescape(e) ==
    IF e \in {"\"", "\\", "/"} THEN e
    ELSE IF e = "n" THEN "\n"
    ELSE IF e = "t" THEN "\t"
    ELSE ""

\* The string whose opening quote is before position j; acc is what was read.
RECURSIVE scan_string(_, _, _)
scan_string(s, j, acc) ==
    IF j > Len(s) THEN DecodeError(j)
    ELSE IF Char(s, j) = "\"" THEN Decoded(acc, j + 1)
    ELSE IF Char(s, j) = "\\"
         THEN IF j + 1 > Len(s) \/ json_unescape(Char(s, j + 1)) = ""
              THEN DecodeError(j)
              ELSE scan_string(s, j + 2, acc \o json_unescape(Char(s, j + 1)))
    ELSE IF Char(s, j) \in {"\n", "\t"} THEN DecodeError(j)
    ELSE scan_string(s, j + 1, acc \o Char(s, j))

\* The position after the digits that start at j.
RECURSIVE digits_end(_, _)
digits_end(s, j) ==
    IF j <= Len(s) /\ IsDigit(Char(s, j)) THEN digits_end(s, j + 1) ELSE j

RECURSIVE int_value(_)
int_value(digits) ==
    IF Len(digits) = 0 THEN 0
    ELSE int_value(SubSeq(digits, 1, Len(digits) - 1)) * 10
         + DigitVal(Char(digits, Len(digits)))

\* -?(0|[1-9][0-9]*): the digits are those from first to before last.
int_at(s, i, first, last) ==
    IF last = first THEN DecodeError(i)
    ELSE IF first > i
    THEN Decoded(PyInt(0 - int_value(SubSeq(s, first, last - 1))), last)
    ELSE Decoded(PyInt(int_value(SubSeq(s, first, last - 1))), last)

digits_at(s, i, first) ==
    IF first <= Len(s) /\ Char(s, first) = "0"
    THEN int_at(s, i, first, first + 1)
    ELSE int_at(s, i, first, digits_end(s, first))

scan_int(s, i) ==
    IF Char(s, i) = "-" THEN digits_at(s, i, i + 1) ELSE digits_at(s, i, i)

\* A string read as a value.
string_value(r) == IF r.ok THEN Decoded(PyStr(r.v), r.next) ELSE r

RECURSIVE parse_value(_, _), value_at(_, _), object_at(_, _), array_at(_, _),
          parse_members(_, _, _), member_key(_, _, _), member_colon(_, _, _),
          member_value(_, _, _, _), member_end(_, _, _, _),
          member_next(_, _, _), parse_items(_, _, _), item_end(_, _, _),
          item_next(_, _, _)
\* The value that starts at or after position i0.
parse_value(s, i0) == value_at(s, skip_ws(s, i0))

value_at(s, i) ==
    IF i > Len(s) THEN DecodeError(i)
    ELSE IF Char(s, i) = "{" THEN object_at(s, skip_ws(s, i + 1))
    ELSE IF Char(s, i) = "[" THEN array_at(s, skip_ws(s, i + 1))
    ELSE IF Char(s, i) = "\"" THEN string_value(scan_string(s, i + 1, ""))
    ELSE IF LiteralAt(s, i, "null") THEN Decoded(PyNone, i + 4)
    ELSE IF LiteralAt(s, i, "true") THEN Decoded(PyBool(TRUE), i + 4)
    ELSE IF LiteralAt(s, i, "false") THEN Decoded(PyBool(FALSE), i + 5)
    ELSE IF Char(s, i) = "-" \/ IsDigit(Char(s, i)) THEN scan_int(s, i)
    ELSE DecodeError(i)

\* An object whose '{' was read; j is the position after it.
object_at(s, j) ==
    IF j <= Len(s) /\ Char(s, j) = "}" THEN Decoded(PyDict(<<>>), j + 1)
    ELSE parse_members(s, j, <<>>)

\* An array whose '[' was read; j is the position after it.
array_at(s, j) ==
    IF j <= Len(s) /\ Char(s, j) = "]" THEN Decoded(PyList(<<>>), j + 1)
    ELSE parse_items(s, j, <<>>)

\* The members of an object from position j0 on: a key, a colon, a value,
\* then a comma or the closing brace.  A repeated key keeps the last value.
parse_members(s, j0, acc) == member_key(s, skip_ws(s, j0), acc)

member_key(s, j, acc) ==
    IF j > Len(s) \/ Char(s, j) # "\"" THEN DecodeError(j)
    ELSE member_colon(s, scan_string(s, j + 1, ""), acc)

member_colon(s, key, acc) ==
    IF ~key.ok THEN key
    ELSE member_value(s, key.v, skip_ws(s, key.next), acc)

member_value(s, k, i, acc) ==
    IF i > Len(s) \/ Char(s, i) # ":" THEN DecodeError(i)
    ELSE member_end(s, k, parse_value(s, i + 1), acc)

member_end(s, k, val, acc) ==
    IF ~val.ok THEN val
    ELSE member_next(s, skip_ws(s, val.next), (k :> val.v) @@ acc)

member_next(s, m, acc) ==
    IF m > Len(s) THEN DecodeError(m)
    ELSE IF Char(s, m) = "," THEN parse_members(s, m + 1, acc)
    ELSE IF Char(s, m) = "}" THEN Decoded(PyDict(acc), m + 1)
    ELSE DecodeError(m)

\* The items of an array from position j0 on.
parse_items(s, j0, acc) == item_end(s, parse_value(s, j0), acc)

item_end(s, val, acc) ==
    IF ~val.ok THEN val
    ELSE item_next(s, skip_ws(s, val.next), Append(acc, val.v))

item_next(s, m, acc) ==
    IF m > Len(s) THEN DecodeError(m)
    ELSE IF Char(s, m) = "," THEN parse_items(s, m + 1, acc)
    ELSE IF Char(s, m) = "]" THEN Decoded(PyList(acc), m + 1)
    ELSE DecodeError(m)

\* Nothing but whitespace follows the value read.
end_of_text(s, r, end) ==
    IF end # Len(s) + 1 THEN DecodeError(end) ELSE r

whole_text(s, r) ==
    IF ~r.ok THEN r ELSE end_of_text(s, r, skip_ws(s, r.next))

\* json.loads(s): one value and nothing but whitespace after it.
json_loads(s) == whole_text(s, parse_value(s, 1))

(***************************************************************************)
(* types.py: the action-result models, as model_validate applies them to a *)
(* dict that json.loads returned.  Each gives Some(the model) or None (a   *)
(* ValidationError).  Keys the model does not declare are ignored.         *)
(***************************************************************************)
HasStr(d, k) == k \in DOMAIN d /\ d[k].t = "str"

HasDict(d, k) == k \in DOMAIN d /\ d[k].t = "dict"

\* GenericActionMessage: messageId: str | None = None
GenericActionMessage(d) ==
    IF "messageId" \notin DOMAIN d \/ d.messageId.t = "none"
    THEN Some([messageId |-> None])
    ELSE IF d.messageId.t = "str" THEN Some([messageId |-> Some(d.messageId.s)])
    ELSE None

\* type: Literal[tag]
HasLiteral(d, k, tag) == HasStr(d, k) /\ d[k].s = tag

ToolCallPayload(p) ==
    IF p.t = "dict" /\ HasStr(p.d, "toolName") /\ HasDict(p.d, "params")
    THEN Some([toolName |-> p.d.toolName.s, params |-> p.d.params.d])
    ELSE None

\* A variant of PromptPayload whose prompt defaults to the empty string.
PromptPayload_DefaultPrompt(p) ==
    IF p.t = "dict" /\ HasStr(p.d, "prompt")
    THEN Some([prompt |-> p.d.prompt.s])
    ELSE IF p.t = "dict" /\ "prompt" \notin DOMAIN p.d
    THEN Some([prompt |-> ""])
    ELSE None

PromptPayload(p) ==
    IF p.t = "dict" /\ HasStr(p.d, "prompt")
    THEN Some([prompt |-> p.d.prompt.s])
    ELSE None

LinkPayload(p) ==
    IF p.t = "dict" /\ HasStr(p.d, "url")
    THEN Some([url |-> p.d.url.s])
    ELSE None

IntentPayload(p) ==
    IF p.t = "dict" /\ HasStr(p.d, "intent") /\ HasDict(p.d, "params")
    THEN Some([intent |-> p.d.intent.s, params |-> p.d.params.d])
    ELSE None

NotificationPayload(p) ==
    IF p.t = "dict" /\ HasStr(p.d, "message")
    THEN Some([message |-> p.d.message.s])
    ELSE None

\* The model of one variant: the inherited messageId, the tag, the payload.
ActionModel(d, tag, payload) ==
    IF /\ GenericActionMessage(d) # None
       /\ HasLiteral(d, "type", tag)
       /\ "payload" \in DOMAIN d /\ payload # None
    THEN Some([type |-> tag, payload |-> payload[1],
               messageId |-> GenericActionMessage(d)[1].messageId])
    ELSE None

UIActionResultToolCall(d) ==
    ActionModel(d, "tool",
                IF "payload" \in DOMAIN d THEN ToolCallPayload(d.payload)
                ELSE None)

UIActionResultPrompt(d) ==
    ActionModel(d, "prompt",
                IF "payload" \in DOMAIN d THEN PromptPayload(d.payload)
                ELSE None)

UIActionResultLink(d) ==
    ActionModel(d, "link",
                IF "payload" \in DOMAIN d THEN LinkPayload(d.payload)
                ELSE None)

UIActionResultIntent(d) ==
    ActionModel(d, "intent",
                IF "payload" \in DOMAIN d THEN IntentPayload(d.payload)
                ELSE None)

UIActionResultNotification(d) ==
    ActionModel(d, "notify",
                IF "payload" \in DOMAIN d THEN NotificationPayload(d.payload)
                ELSE None)

(***************************************************************************)
(* utils.py: validate_uri, serialize_ui_action_result and                  *)
(* deserialize_ui_action_result.                                           *)
(***************************************************************************)
\* A variant of validate_uri that takes the prefix in either case.
validate_uri_AnyCase(uri) == startswith(uri, "ui://") \/ startswith(uri, "UI://")

\* lines 12-21
validate_uri(uri) == startswith(uri, "ui://")

\* model_dump_json() of a payload: its fields in the order of their
\* declaration.
payload_json(a) ==
    IF a.type \in {"tool", "intent"}
    THEN "{" \o json_string(IF a.type = "tool" THEN "toolName" ELSE "intent")
         \o ":"
         \o json_string(IF a.type = "tool" THEN a.payload.toolName
                        ELSE a.payload.intent)
         \o ",\"params\":" \o json_value(PyDict(a.payload.params)) \o "}"
    ELSE LET field == IF a.type = "prompt" THEN "prompt"
                      ELSE IF a.type = "link" THEN "url" ELSE "message"
         IN  "{" \o json_string(field) \o ":"
             \o json_string(a.payload[field]) \o "}"

\* A variant of serialize_ui_action_result that leaves out a messageId that
\* is None and writes a messageId that is set as null.
serialize_ui_action_result_NoMessageId(action_result) ==
    "{"
    \o (IF action_result.messageId = None THEN "" ELSE "\"messageId\":null,")
    \o "\"type\":" \o json_string(action_result.type)
    \o ",\"payload\":" \o payload_json(action_result) \o "}"

\* lines 36-45: action_result.model_dump_json(); the inherited messageId
\* is the first field, None is written as null.
serialize_ui_action_result(action_result) ==
    "{\"messageId\":"
    \o (IF action_result.messageId = None THEN "null"
        ELSE json_string(action_result.messageId[1]))
    \o ",\"type\":" \o json_string(action_result.type)
    \o ",\"payload\":" \o payload_json(action_result) \o "}"

\* str(value) of the f-string of line 89, for the values a 'type' key holds
\* here: a string, a number, null, a boolean.
py_str(v) ==
    IF v.t = "str" THEN v.s
    ELSE IF v.t = "none" THEN "None"
    ELSE IF v.t = "bool" THEN (IF v.b THEN "True" ELSE "False")
    ELSE IF v.t = "int" THEN json_value(v)
    ELSE "[...]"

\* data is bound to what json.loads read; lines 91-92: a JSONDecodeError
\* is caught and raised again as a ValueError.
BindLoaded(f, r) ==
    IF r.ok THEN Bind(f, "data", r.v)
    ELSE Raise(f, "ValueError",
               "Invalid JSON: Expecting value: char " \o decimal(r.at - 1))

\* line 69: data = json.loads(json_str)
LoadJson(f) == BindLoaded(f, json_loads(f.locals.json_str))

\* lines 72-73
CheckFormat(f) ==
    LET data == f.locals.data
    IN  IF data.t # "dict" \/ "type" \notin DOMAIN data.d
           \/ "payload" \notin DOMAIN data.d
        THEN Raise(f, "ValueError", "Invalid UI action result format")
        ELSE f

\* line 75
BindActionType(f) == Bind(f, "action_type", f.locals.data.d.type)

\* The return of a model_validate: the model, or pydantic's ValidationError.
ReturnValidated(f, model, name) ==
    IF model # None THEN Return(f, model[1])
    ELSE Raise(f, "ValidationError", "validation error for " \o name)

\* action_type == tag, for a value of any type
IsTag(v, tag) == v.t = "str" /\ v.s = tag

\* A variant of DispatchAction whose link and intent branches are swapped.
DispatchAction_LinkAsIntent(f) ==
    LET data        == f.locals.data.d
        action_type == f.locals.action_type
    IN  IF IsTag(action_type, "tool")
        THEN ReturnValidated(f, UIActionResultToolCall(data),
                             "UIActionResultToolCall")
        ELSE IF IsTag(action_type, "prompt")
        THEN ReturnValidated(f, UIActionResultPrompt(data),
                             "UIActionResultPrompt")
        ELSE IF IsTag(action_type, "intent")
        THEN ReturnValidated(f, ActionModel(data, "intent",
                                            LinkPayload(data.payload)),
                             "UIActionResultLink")
        ELSE IF IsTag(action_type, "link")
        THEN ReturnValidated(f, ActionModel(data, "link",
                                            IntentPayload(data.payload)),
                             "UIActionResultIntent")
        ELSE IF IsTag(action_type, "notify")
        THEN ReturnValidated(f, UIActionResultNotification(data),
                             "UIActionResultNotification")
        ELSE Raise(f, "ValueError",
                   "Invalid action type: " \o py_str(action_type))

\* lines 78-89: the dispatch on action_type.
DispatchAction(f) ==
    LET data        == f.locals.data.d
        action_type == f.locals.action_type
    IN  IF IsTag(action_type, "tool")
        THEN ReturnValidated(f, UIActionResultToolCall(data),
                             "UIActionResultToolCall")
        ELSE IF IsTag(action_type, "prompt")
        THEN ReturnValidated(f, UIActionResultPrompt(data),
                             "UIActionResultPrompt")
        ELSE IF IsTag(action_type, "link")
        THEN ReturnValidated(f, UIActionResultLink(data),
                             "UIActionResultLink")
        ELSE IF IsTag(action_type, "intent")
        THEN ReturnValidated(f, UIActionResultIntent(data),
                             "UIActionResultIntent")
        ELSE IF IsTag(action_type, "notify")
        THEN ReturnValidated(f, UIActionResultNotification(data),
                             "UIActionResultNotification")
        ELSE Raise(f, "ValueError",
                   "Invalid action type: " \o py_str(action_type))

\* deserialize_ui_action_result(json_str): the frame the call ends with.
deserialize_ui_action_result(json_str) ==
    LET f1 == LoadJson(Frame([json_str |-> json_str]))
        f2 == IF Running(f1) THEN CheckFormat(f1) ELSE f1
        f3 == IF Running(f2) THEN BindActionType(f2) ELSE f2
    IN  IF Running(f3) THEN DispatchAction(f3) ELSE f3

(***************************************************************************)
(* The inputs the model draws.                                             *)
(***************************************************************************)
\* All TLA+ strings of at most n characters of the set chars.
RECURSIVE StringsUpTo(_, _)
StringsUpTo(chars, n) ==
    IF n = 0 THEN {""}
    ELSE LET shorter == StringsUpTo(chars, n - 1)
         IN  shorter \cup {s \o c : s \in shorter, c \in chars}

\* All sequences of at most n elements of the set S.
RECURSIVE SeqsUpTo(_, _)
SeqsUpTo(S, n) ==
    IF n = 0 THEN {<<>>}
    ELSE LET shorter == SeqsUpTo(S, n - 1)
         IN  shorter \cup {Append(s, x) : s \in shorter, x \in S}

\* What follows 'ui://': a host character, the separators of a URL, a space.
UriChars == {"a", "/", ".", ":", " "}

\* Uris without the prefix: empty, another scheme, another case, one slash,
\* the prefix not at position 0.
OtherUris == {"", "ui:", "ui:/a", "UI://a", "invalid://a", " ui://a"}

Uris == {UiScheme \o t : t \in StringsUpTo(UriChars, MaxUriTail)} \cup OtherUris

\* 'A' (1 byte in UTF-8), U+00E9 (2 bytes), U+20AC (3 bytes), U+1F600
\* (4 bytes) and the lone surrogate U+D800 (no UTF-8 form).
CodePoints == {65, 233, 8364, 128512, 55296}

ContentStrings == SeqsUpTo(CodePoints, MaxStrLen)

\* The empty string and 'A'.
InstanceStrings == {<<>>, <<65>>}

\* Contents that are instances of the payload classes: one as built, and
\* ones whose framework or type was set to another value after they were
\* built (a framework outside the schema, an unknown tag, the tag of another
\* class).
InstanceContents ==
    UNION {
      { [cls |-> "RemoteDomPayload", type |-> "remoteDom", script |-> s,
         framework |-> "react"],
        [cls |-> "RemoteDomPayload", type |-> "remoteDom", script |-> s,
         framework |-> "angular"],
        [cls |-> "RawHtmlPayload", type |-> "video", htmlString |-> s],
        [cls |-> "RawHtmlPayload", type |-> "externalUrl", htmlString |-> s],
        [cls |-> "ExternalUrlPayload", type |-> "remoteDom", iframeUrl |-> s],
        [cls |-> "RemoteDomPayload", type |-> "rawHtml", script |-> s,
         framework |-> "react"] } : s \in InstanceStrings }

\* The contents: as dicts, the three variants, remoteDom with a framework
\* outside the schema or with none, a field that is not the variant's, an
\* unknown tag; and the instances.
ContentDicts ==
    UNION {
      { [type |-> "rawHtml", htmlString |-> s],
        [type |-> "externalUrl", iframeUrl |-> s],
        [type |-> "remoteDom", script |-> s, framework |-> "react"],
        [type |-> "remoteDom", script |-> s, framework |-> "webcomponents"],
        [type |-> "remoteDom", script |-> s, framework |-> "angular"],
        [type |-> "remoteDom", script |-> s],
        [type |-> "rawHtml", iframeUrl |-> s],
        [type |-> "video", htmlString |-> s] } : s \in ContentStrings }
    \cup InstanceContents

EncodingValues == {"text", "blob", "base64"}

OptionsDicts == [uri : Uris, content : ContentDicts, encoding : EncodingValues]

ArgStrings == StringsUpTo({"a", " "}, MaxStrLen)

\* The params of the tests: none, one string, the nested 'complex' params;
\* and params holding a tuple, a Python value JSON has no form of its own for.
ParamDicts ==
    { <<>>,
      [param1 |-> PyStr("value1")],
      [nested |-> PyDict([key |-> PyStr("value")]),
       list |-> PyList(<<PyInt(1), PyInt(2), PyInt(3)>>),
       boolean |-> PyBool(TRUE), number |-> PyInt(42), nothing |-> PyNone],
      [pair |-> PyTuple(<<PyInt(1), PyStr("b")>>)] }

\* The strings that go over the wire: a letter, and the two characters JSON
\* escapes.
WireChars == {"a", "\"", "\\"}

WireStrings == StringsUpTo(WireChars, MaxStrLen)

MessageIds == {None, Some("msg-1"), Some("")}

\* The action results: what the five constructors build, with messageId
\* left at None or set.
ActionResults ==
    UNION {
      {[ui_action_result_tool_call(s, p) EXCEPT !.messageId = m] :
          p \in ParamDicts}
      \cup {[ui_action_result_intent(s, p) EXCEPT !.messageId = m] :
          p \in ParamDicts}
      \cup {[ui_action_result_prompt(s) EXCEPT !.messageId = m],
            [ui_action_result_link(s) EXCEPT !.messageId = m],
            [ui_action_result_notification(s) EXCEPT !.messageId = m]}
      : s \in WireStrings, m \in MessageIds }

\* What the 'type' key of a received object holds: the five tags, a tag that
\* is none of them, a tag in another case, a number, null.
TypeValues ==
    {PyStr(t) : t \in {"tool", "prompt", "link", "intent", "notify",
                       "unknown", "Tool"}}
    \cup {PyInt(1), PyNone}

\* What its 'payload' key holds: the payload of each variant, payloads that
\* lack a field or hold one of the wrong type, a payload with a key of no
\* variant, values that are no object.
PayloadValues ==
    { PyDict([toolName |-> PyStr("t"), params |-> PyDict(<<>>)]),
      PyDict([intent |-> PyStr("i"), params |-> PyDict([k |-> PyInt(1)])]),
      PyDict([prompt |-> PyStr("p")]),
      PyDict([url |-> PyStr("u")]),
      PyDict([message |-> PyStr("m")]),
      PyDict(<<>>),
      PyDict([toolName |-> PyStr("t")]),
      PyDict([toolName |-> PyInt(1), params |-> PyDict(<<>>)]),
      PyDict([intent |-> PyStr("i"), params |-> PyList(<<>>)]),
      PyDict([prompt |-> PyStr("p"), extra |-> PyInt(1)]),
      PyStr("p"),
      PyNone }

MessageIdValues == {PyNone, PyStr("msg-1"), PyInt(7)}

\* The objects received: with and without messageId, without 'type',
\* without 'payload', with no key at all.
WireDicts ==
    {[type |-> t, payload |-> p] : t \in TypeValues, p \in PayloadValues}
    \cup {[type |-> t, payload |-> p, messageId |-> m] :
             t \in TypeValues, p \in PayloadValues, m \in MessageIdValues}
    \cup {[payload |-> p] : p \in PayloadValues}
    \cup {[type |-> t] : t \in TypeValues}
    \cup {<<>>}

Prefixes(s) == {SubSeq(s, 1, n) : n \in 0..(Len(s) - 1)}

\* Texts that are not JSON: a text cut short, single quotes, a missing
\* colon, a trailing comma, a bare word, two values.
MalformedTexts ==
    Prefixes("{\"type\":\"prompt\",\"payload\":{\"prompt\":\"a\\\"\"},\"messageId\":null}")
    \cup {"{'type':'tool','payload':{}}", "{\"type\" \"tool\"}",
          "{\"type\":\"tool\",\"payload\":{},}", "tool", "[1,2",
          "{\"type\":\"tool\",\"payload\":{}} {}", "-", "01"}

\* Texts that are JSON but no object.
NotObjectTexts ==
    {"null", "true", "42", "-7", "\"tool\"", "[]",
     "[{\"type\":\"prompt\",\"payload\":{\"prompt\":\"a\"}}]"}

\* An object written with spaces, and one that repeats a key.
SpacedTexts ==
    {" { \"type\" : \"prompt\" , \"payload\" : { \"prompt\" : \"a\" } } ",
     "{\"type\":\"link\",\"type\":\"notify\",\"payload\":{\"message\":\"m\"}}"}

JsonTexts ==
    {json_value(PyDict(d)) : d \in WireDicts}
    \cup MalformedTexts \cup NotObjectTexts \cup SpacedTexts

Ops == {"create_ui_resource", "ui_action_result_tool_call",
        "ui_action_result_prompt", "ui_action_result_link",
        "ui_action_result_intent", "ui_action_result_notification",
        "validate_uri", "serialize_ui_action_result",
        "deserialize_ui_action_result"}

ArgsOf(o) ==
    IF o = "create_ui_resource" THEN OptionsDicts
    ELSE IF o = "validate_uri" THEN [uri : Uris]
    ELSE IF o = "serialize_ui_action_result"
         THEN [action_result : ActionResults]
    ELSE IF o = "deserialize_ui_action_result" THEN [json_str : JsonTexts]
    ELSE IF o = "ui_action_result_tool_call"
         THEN [tool_name : ArgStrings, params : ParamDicts]
    ELSE IF o = "ui_action_result_prompt" THEN [prompt : ArgStrings]
    ELSE IF o = "ui_action_result_link" THEN [url : ArgStrings]
    ELSE IF o = "ui_action_result_intent"
         THEN [intent : ArgStrings, params : ParamDicts]
    ELSE [message : ArgStrings]

(***************************************************************************)
(* The state machine: a caller holds the arguments of one call (pc =       *)
(* "call"); the call runs and leaves its frame in result (pc = "done").    *)
(***************************************************************************)
Init ==
    /\ pc = "call"
    /\ op \in Ops
    /\ args \in ArgsOf(op)
    /\ result = None
    /\ heap = None
    /\ calls = None

Finish(o, frame) ==
    /\ pc = "call"
    /\ op = o
    /\ result' = frame
    /\ pc' = "done"
    /\ UNCHANGED <<op, args, heap, calls>>

CallCreateUIResource ==
    Finish("create_ui_resource", create_ui_resource(args))

CallToolCall ==
    Finish("ui_action_result_tool_call",
           Return(Frame(args),
                  ui_action_result_tool_call(args.tool_name, args.params)))

CallPrompt ==
    Finish("ui_action_result_prompt",
           Return(Frame(args), ui_action_result_prompt(args.prompt)))

CallLink ==
    Finish("ui_action_result_link",
           Return(Frame(args), ui_action_result_link(args.url)))

CallIntent ==
    Finish("ui_action_result_intent",
           Return(Frame(args),
                  ui_action_result_intent(args.intent, args.params)))

CallNotification ==
    Finish("ui_action_result_notification",
           Return(Frame(args), ui_action_result_notification(args.message)))

CallValidateUri ==
    Finish("validate_uri", Return(Frame(args), validate_uri(args.uri)))

CallSerialize ==
    Finish("serialize_ui_action_result",
           Return(Frame(args),
                  serialize_ui_action_result(args.action_result)))

CallDeserialize ==
    Finish("deserialize_ui_action_result",
           deserialize_ui_action_result(args.json_str))

\* The receiver of a serialized action result deserializes the text it was
\* sent; args still holds the action result that was serialized.
DeserializeSerialized ==
    /\ pc = "done"
    /\ op = "serialize_ui_action_result"
    /\ result.status = "returned"
    /\ result' = deserialize_ui_action_result(result.value[1])
    /\ pc' = "received"
    /\ UNCHANGED <<op, args, heap, calls>>

Next ==
    \/ CallCreateUIResource
    \/ CallToolCall
    \/ CallPrompt
    \/ CallLink
    \/ CallIntent
    \/ CallNotification
    \/ CallValidateUri
    \/ CallSerialize
    \/ CallDeserialize
    \/ DeserializeSerialized

Spec == Init /\ [][Next]_vars

(***************************************************************************)
(* Several callers of create_ui_resource at once.  The options dicts are   *)
(* objects of the heap; a caller holds a reference to one, and two callers *)
(* may hold the same.  A call runs statement by statement, interleaved     *)
(* with the other calls: calls[c].at is the statement caller c is at, 0    *)
(* before it has called.                                                   *)
(***************************************************************************)
Callers == 1..NumCallers

Refs == {"d1", "d2"}

\* Options of every outcome: returned as text and as blob; a uri without
\* the prefix; an empty script; an encoding outside the schema; a uri
\* AnyUrl rejects; a content string UTF-8 cannot encode; a payload instance
\* with a framework outside the schema.
SharedDicts ==
    { [uri |-> "ui://a", encoding |-> "text",
       content |-> [type |-> "rawHtml", htmlString |-> <<65>>]],
      [uri |-> "ui://a", encoding |-> "blob",
       content |-> [type |-> "externalUrl", iframeUrl |-> <<233>>]],
      [uri |-> "invalid://a", encoding |-> "text",
       content |-> [type |-> "rawHtml", htmlString |-> <<65>>]],
      [uri |-> "ui://a", encoding |-> "text",
       content |-> [type |-> "remoteDom", script |-> <<>>,
                    framework |-> "react"]],
      [uri |-> "ui://a", encoding |-> "base64",
       content |-> [type |-> "rawHtml", htmlString |-> <<65>>]],
      [uri |-> "ui://a b", encoding |-> "text",
       content |-> [type |-> "rawHtml", htmlString |-> <<65>>]],
      [uri |-> "ui://a", encoding |-> "blob",
       content |-> [type |-> "rawHtml", htmlString |-> <<55296>>]],
      [uri |-> "ui://a", encoding |-> "blob",
       content |-> [cls |-> "RemoteDomPayload", type |-> "remoteDom",
                    script |-> <<65>>, framework |-> "angular"]] }

InitInterleaved ==
    /\ pc = "interleaved"
    /\ op = "create_ui_resource"
    /\ args = None
    /\ result = None
    /\ heap \in [Refs -> SharedDicts]
    /\ calls \in [Callers -> {[ref |-> r, at |-> 0, frame |-> None] :
                                 r \in Refs}]

\* Caller c calls create_ui_resource(options_dict) with the dict it holds.
EnterCall(c) ==
    /\ pc = "interleaved"
    /\ calls[c].at = 0
    /\ calls' = [calls EXCEPT ![c].at = 1,
                              ![c].frame =
                                  Frame([options_dict |-> heap[calls[c].ref]])]
    /\ UNCHANGED <<pc, op, args, result, heap>>

\* The call of caller c runs its next statement, which leaves its frame as
\* given.  No statement of create_ui_resource assigns to a global, to the
\* dict it was passed or to anything inside it.
Advance(c, stage, frame) ==
    /\ pc = "interleaved"
    /\ calls[c].at = stage
    /\ Running(calls[c].frame)
    /\ calls' = [calls EXCEPT ![c].at = stage + 1, ![c].frame = frame]
    /\ UNCHANGED <<pc, op, args, result, heap>>

\* A variant of StepValidateOptions that stores the validated content back
\* in the dict it was passed.
StepValidateOptions_InPlace(c) ==
    /\ pc = "interleaved"
    /\ calls[c].at = 1
    /\ Running(calls[c].frame)
    /\ calls' = [calls EXCEPT ![c].at = 2,
                              ![c].frame = ValidateOptions(calls[c].frame)]
    /\ heap' = [heap EXCEPT ![calls[c].ref] =
                   IF CreateUIResourceOptions(@).ok
                   THEN CreateUIResourceOptions(@).value ELSE @]
    /\ UNCHANGED <<pc, op, args, result>>

StepValidateOptions(c) == Advance(c, 1, ValidateOptions(calls[c].frame))

StepCheckUri(c) == Advance(c, 2, CheckUri(calls[c].frame))

StepBindContent(c) == Advance(c, 3, BindContent(calls[c].frame))

StepDispatch(c) == Advance(c, 4, Dispatch(calls[c].frame))

StepEncode(c) == Advance(c, 5, Encode(calls[c].frame))

StepReturnResource(c) == Advance(c, 6, ReturnResource(calls[c].frame))

NextInterleaved ==
    \/ \E c \in Callers : EnterCall(c)
    \/ \E c \in Callers : StepValidateOptions(c)
    \/ \E c \in Callers : StepCheckUri(c)
    \/ \E c \in Callers : StepBindContent(c)
    \/ \E c \in Callers : StepDispatch(c)
    \/ \E c \in Callers : StepEncode(c)
    \/ \E c \in Callers : StepReturnResource(c)

SpecInterleaved == InitInterleaved /\ [][NextInterleaved]_vars

(***************************************************************************)
(* What the properties below speak of.                                     *)
(***************************************************************************)
Created == pc = "done" /\ op = "create_ui_resource"

Returned == Created /\ result.status = "returned"

RaisedError(type) ==
    Created /\ result.status = "raised" /\ result.exc[1].type = type

\* Nothing came back: no value, and no resource contents were even built.
NoResource == result.value = None /\ "resource" \notin DOMAIN result.locals

ErrorMessage == result.exc[1].msg

Resource == result.value[1].resource

HasUiPrefix(uri) == Len(uri) >= 5 /\ SubSeq(uri, 1, 5) = "ui://"

Contains(s, sub) ==
    \E i \in 0..(Len(s) - Len(sub)) : SubSeq(s, i + 1, i + Len(sub)) = sub

\* The content dict is one of the three variants of the data model.
IsVariant(c) ==
    \/ c.type = "rawHtml" /\ DOMAIN c = {"type", "htmlString"}
    \/ c.type = "externalUrl" /\ DOMAIN c = {"type", "iframeUrl"}
    \/ /\ c.type = "remoteDom" /\ DOMAIN c = {"type", "script", "framework"}
       /\ c.framework \in {"react", "webcomponents"}

\* The variant's required string field and its value.
RequiredField(c) ==
    IF c.type = "rawHtml" THEN "htmlString"
    ELSE IF c.type = "externalUrl" THEN "iframeUrl" ELSE "script"

ContentString(c) == c[RequiredField(c)]

\* An options value of the data model: a variant, and one of the two encodings.
IsOptions(d) == IsVariant(d.content) /\ d.encoding \in {"text", "blob"}

\* Standard padded base64 decoding (RFC 4648 section 4).
B64Values == [c \in {B64Char(i) : i \in 0..63} |->
                 CHOOSE i \in 0..63 : B64Char(i) = c]

IsB64Char(c) == c \in DOMAIN B64Values

B64Index(c) == B64Values[c]

RECURSIVE b64decode_groups(_)
b64decode_groups(s) ==
    IF Len(s) = 0 THEN <<>>
    ELSE LET a == B64Index(Char(s, 1))
             b == B64Index(Char(s, 2))
         IN  IF Len(s) = 4 /\ Char(s, 3) = "="
             THEN <<a * 4 + (b \div 16)>>
             ELSE IF Len(s) = 4 /\ Char(s, 4) = "="
             THEN LET c == B64Index(Char(s, 3))
                  IN  <<a * 4 + (b \div 16), (b % 16) * 16 + (c \div 4)>>
             ELSE LET c == B64Index(Char(s, 3))
                      d == B64Index(Char(s, 4))
                  IN  <<a * 4 + (b \div 16), (b % 16) * 16 + (c \div 4),
                        (c % 4) * 64 + d>>
                      \o b64decode_groups(SubSeq(s, 5, Len(s)))

b64decode(s) ==
    LET pad  == IF Len(s) >= 2 /\ SubSeq(s, Len(s) - 1, Len(s)) = "==" THEN 2
                ELSE IF Len(s) >= 1 /\ Char(s, Len(s)) = "=" THEN 1 ELSE 0
        wellFormed == /\ Len(s) % 4 = 0
                      /\ \A i \in 1..(Len(s) - pad) : IsB64Char(Char(s, i))
    IN  IF wellFormed THEN [ok |-> TRUE, bytes |-> b64decode_groups(s)]
        ELSE [ok |-> FALSE, bytes |-> <<>>]

\* Strict UTF-8 decoding: no overlong form, no surrogate, nothing above U+10FFFF.
IsContinuation(b) == b >= 128 /\ b <= 191

RECURSIVE utf8_decode(_)
utf8_decode(bs) ==
    IF Len(bs) = 0 THEN [ok |-> TRUE, s |-> <<>>]
    ELSE LET b1 == bs[1]
             n  == IF b1 < 128 THEN 1
                   ELSE IF b1 >= 192 /\ b1 <= 223 THEN 2
                   ELSE IF b1 >= 224 /\ b1 <= 239 THEN 3
                   ELSE IF b1 >= 240 /\ b1 <= 247 THEN 4 ELSE 0
             fits == /\ n > 0 /\ Len(bs) >= n
                     /\ \A i \in 2..n : IsContinuation(bs[i])
             cp == IF n = 1 THEN b1
                   ELSE IF n = 2 THEN (b1 - 192) * 64 + (bs[2] - 128)
                   ELSE IF n = 3
                        THEN (b1 - 224) * 4096 + (bs[2] - 128) * 64 + (bs[3] - 128)
                   ELSE (b1 - 240) * 262144 + (bs[2] - 128) * 4096
                        + (bs[3] - 128) * 64 + (bs[4] - 128)
             least == IF n = 1 THEN 0 ELSE IF n = 2 THEN 128
                      ELSE IF n = 3 THEN 2048 ELSE 65536
         IN  IF ~fits THEN [ok |-> FALSE, s |-> <<>>]
             ELSE IF cp < least \/ cp > 1114111 \/ (cp >= 55296 /\ cp <= 57343)
             THEN [ok |-> FALSE, s |-> <<>>]
             ELSE LET rest == utf8_decode(SubSeq(bs, n + 1, Len(bs)))
                  IN  IF rest.ok THEN [ok |-> TRUE, s |-> <<cp>> \o rest.s]
                      ELSE rest

\* The blob decodes, base64 then UTF-8, to the content string s.
Utf8DecodesTo(decoded, s) == decoded.ok /\ decoded.s = s

B64DecodesTo(decoded, s) ==
    decoded.ok /\ Utf8DecodesTo(utf8_decode(decoded.bytes), s)

DecodesTo(blob, s) == B64DecodesTo(b64decode(blob), s)

HasLoneSurrogate(s) == \E i \in 1..Len(s) : s[i] >= 55296 /\ s[i] <= 57343

\* The options pass schema validation.
SchemaValid(d) == CreateUIResourceOptions(d).ok

\* The required string of the validated content: the field of its class.
ValidatedContentString(d) ==
    LET c == CreateUIResourceOptions(d).value.content
    IN  IF c.cls = "RawHtmlPayload" THEN c.htmlString
        ELSE IF c.cls = "ExternalUrlPayload" THEN c.iframeUrl
        ELSE c.script

\* The three failures the builder documents.
DocumentedErrors == {"ValidationError", "InvalidURIError", "InvalidContentError"}

\* The content names a framework outside the schema.
HasUnknownFramework(c) ==
    "framework" \in DOMAIN c /\ c.framework \notin {"react", "webcomponents"}

HasUnknownTag(c) == c.type \notin {"rawHtml", "externalUrl", "remoteDom"}

\* The five constructors among the operations.
ConstructorOps ==
    {"ui_action_result_tool_call", "ui_action_result_prompt",
     "ui_action_result_link", "ui_action_result_intent",
     "ui_action_result_notification"}

\* A text was serialized and the receiver has deserialized it.
Received == pc = "received"

\* deserialize_ui_action_result has run, on a text of the caller's or on
\* the text serialize_ui_action_result returned.
Deserialized ==
    \/ pc = "done" /\ op = "deserialize_ui_action_result"
    \/ pc = "received"

\* The exception types that are ValueError or a subclass of it:
\* json.JSONDecodeError and pydantic's ValidationError both are.
ValueErrors == {"ValueError", "JSONDecodeError", "ValidationError"}

ActionTags == {"tool", "prompt", "link", "intent", "notify"}

\* The fields a variant's payload must hold.
RequiredPayloadFields(tag) ==
    IF tag = "tool" THEN {"toolName", "params"}
    ELSE IF tag = "prompt" THEN {"prompt"}
    ELSE IF tag = "link" THEN {"url"}
    ELSE IF tag = "intent" THEN {"intent", "params"}
    ELSE {"message"}

\* The ways a text is no action result: not JSON, no object, no 'type' or
\* 'payload', a 'type' that is none of the five tags, a payload object that
\* lacks a field its 'type' requires.
IsMalformedJson(text) == ~json_loads(text).ok

IsNoObject(text) == json_loads(text).ok /\ json_loads(text).v.t # "dict"

IsObject(text) == json_loads(text).ok /\ json_loads(text).v.t = "dict"

ObjectOf(text) == json_loads(text).v.d

LacksKey(text) ==
    IsObject(text) /\ ~({"type", "payload"} \subseteq DOMAIN ObjectOf(text))

HasKeys(text) ==
    IsObject(text) /\ {"type", "payload"} \subseteq DOMAIN ObjectOf(text)

HasUnknownType(text) ==
    /\ HasKeys(text)
    /\ ~(ObjectOf(text).type.t = "str" /\ ObjectOf(text).type.s \in ActionTags)

HasKnownType(text) ==
    /\ HasKeys(text)
    /\ ObjectOf(text).type.t = "str" /\ ObjectOf(text).type.s \in ActionTags

PayloadLacksField(text) ==
    /\ HasKnownType(text)
    /\ ObjectOf(text).payload.t = "dict"
    /\ ~(RequiredPayloadFields(ObjectOf(text).type.s)
            \subseteq DOMAIN ObjectOf(text).payload.d)

\* A value JSON has a form of its own for: null, a boolean, a number, a
\* string, an array or an object of such values.  A tuple is none.
RECURSIVE IsJsonValue(_)
IsJsonValue(v) ==
    \/ v.t \in {"none", "bool", "int", "str"}
    \/ v.t = "list" /\ \A i \in 1..Len(v.items) : IsJsonValue(v.items[i])
    \/ v.t = "dict" /\ \A k \in DOMAIN v.d : IsJsonValue(v.d[k])

\* The params of the action result, if it has any, are JSON values.
HasJsonParams(a) ==
    a.type \in {"tool", "intent"} => IsJsonValue(PyDict(a.payload.params))

\* The call got as far as building the resource contents: the uri has the
\* prefix and is one AnyUrl parses.
UriAccepted(uri) == HasUiPrefix(uri) /\ AnyUrl(uri).ok

(***************************************************************************)
(* The properties.                                                         *)
(***************************************************************************)

\* C1: whenever create_ui_resource returns, the resource's mimeType is the
\* value the table gives for (content.type, content.framework): text/html for
\* rawHtml, text/uri-list for externalUrl, and for remoteDom the remote-dom
\* type with framework=<framework>, framework being react or webcomponents;
\* so it depends on nothing else (not on encoding, uri or content string).
C1_MimeTypeIsFunctionOfTypeAndFramework ==
    Returned =>
        LET c == args.content
            m == Resource.mimeType
        IN  /\ c.type \in {"rawHtml", "externalUrl", "remoteDom"}
            /\ (c.type = "rawHtml" => m = "text/html")
            /\ (c.type = "externalUrl" => m = "text/uri-list")
            /\ (c.type = "remoteDom" =>
                  /\ c.framework \in {"react", "webcomponents"}
                  /\ m = "application/vnd.mcp-ui.remote-dom+javascript; framework="
                         \o c.framework)

C1_Witness ==
    /\ Returned
    /\ args.content.type = "remoteDom"
    /\ args.content.framework = "webcomponents"
    /\ args.encoding = "blob"
    /\ args.uri # "ui://a"

\* C2 as stated: for every content variant and every non-empty content
\* string s, create_ui_resource with encoding 'blob' (and a uri it accepts)
\* returns a resource whose blob decodes, base64 then UTF-8, to s.
C2_BlobRoundTripForEveryString ==
    ( /\ Created
      /\ IsOptions(args) /\ args.encoding = "blob"
      /\ UriAccepted(args.uri)
      /\ ContentString(args.content) # <<>> )
    => /\ Returned
       /\ "blob" \in DOMAIN Resource
       /\ DecodesTo(Resource.blob, ContentString(args.content))

\* C2 amended: the same for every non-empty s that holds no lone surrogate;
\* for an s that holds one the call raises UnicodeEncodeError and returns no
\* resource.  And whenever a blob is returned, it decodes to s.
C2_BlobRoundTripForEncodableStrings ==
    /\ ( /\ Created
         /\ IsOptions(args) /\ args.encoding = "blob"
         /\ UriAccepted(args.uri)
         /\ ContentString(args.content) # <<>> )
       => IF HasLoneSurrogate(ContentString(args.content))
          THEN RaisedError("UnicodeEncodeError") /\ NoResource
          ELSE /\ Returned
               /\ "blob" \in DOMAIN Resource
               /\ DecodesTo(Resource.blob, ContentString(args.content))
    /\ (Returned /\ args.encoding = "blob")
       => DecodesTo(Resource.blob, ContentString(args.content))

C2_Witness ==
    /\ Returned
    /\ args.encoding = "blob"
    /\ args.content.type = "externalUrl"
    /\ Len(ContentString(args.content)) = 2
    /\ ContentString(args.content)[1] = 128512

\* C3: for every content variant and every non-empty content string s,
\* create_ui_resource with encoding 'text' (and a uri it accepts) returns a
\* resource whose text field is s itself.
C3_TextIsContentStringVerbatim ==
    ( /\ Created
      /\ IsOptions(args) /\ args.encoding = "text"
      /\ UriAccepted(args.uri)
      /\ ContentString(args.content) # <<>> )
    => /\ Returned
       /\ "text" \in DOMAIN Resource
       /\ Resource.text = ContentString(args.content)

C3_Witness ==
    /\ Returned
    /\ args.encoding = "text"
    /\ args.content.type = "remoteDom"
    /\ Len(ContentString(args.content)) = 2
    /\ Resource.text = ContentString(args.content)

\* C4: for every uri that does not start with 'ui://' and every otherwise
\* valid options value (a variant with a non-empty content string, either
\* encoding), create_ui_resource raises InvalidURIError and returns nothing.
C4_UriWithoutPrefixIsRejected ==
    ( /\ Created
      /\ ~HasUiPrefix(args.uri)
      /\ IsOptions(args)
      /\ ContentString(args.content) # <<>> )
    => RaisedError("InvalidURIError") /\ NoResource

C4_Witness ==
    /\ RaisedError("InvalidURIError")
    /\ args.uri = " ui://a"
    /\ IsOptions(args)
    /\ args.encoding = "blob"
    /\ ContentString(args.content) # <<>>

\* C5: for each content variant and either encoding, with a uri that starts
\* with 'ui://', an empty required string makes create_ui_resource raise
\* InvalidContentError with a message that names the field, and no resource,
\* not even the resource contents, is built.
C5_EmptyContentStringIsRejected ==
    ( /\ Created
      /\ HasUiPrefix(args.uri)
      /\ IsOptions(args)
      /\ ContentString(args.content) = <<>> )
    => /\ RaisedError("InvalidContentError")
       /\ Contains(ErrorMessage, RequiredField(args.content))
       /\ NoResource

C5_Witness ==
    /\ RaisedError("InvalidContentError")
    /\ args.content.type = "externalUrl"
    /\ args.content.iframeUrl = <<>>
    /\ args.encoding = "blob"
    /\ Contains(ErrorMessage, "iframeUrl")

\* C6 (as stated): a remoteDom payload whose framework is outside
\* {react, webcomponents} makes create_ui_resource raise the schema's
\* ValidationError (not InvalidContentError) before any MIME type is derived,
\* and return nothing.
C6_UnknownFrameworkFailsValidation ==
    ( /\ Created
      /\ args.content.type = "remoteDom"
      /\ "framework" \in DOMAIN args.content
      /\ args.content.framework \notin {"react", "webcomponents"} )
    => /\ RaisedError("ValidationError")
       /\ "mime_type" \notin DOMAIN result.locals
       /\ NoResource

\* C6 (amended): a remoteDom payload whose framework is outside
\* {react, webcomponents} makes create_ui_resource fail before any MIME type
\* is derived and return nothing; the failure is the schema's ValidationError
\* when the payload is given as a dict, and when it is given as a
\* RemoteDomPayload instance, which the schema does not validate again, it is
\* InvalidURIError for a uri without the prefix and InvalidContentError
\* otherwise.
C6_UnknownFrameworkFailsBeforeMime ==
    ( /\ Created
      /\ args.content.type = "remoteDom"
      /\ "framework" \in DOMAIN args.content
      /\ args.content.framework \notin {"react", "webcomponents"} )
    => /\ "mime_type" \notin DOMAIN result.locals
       /\ NoResource
       /\ ~IsInstance(args.content) => RaisedError("ValidationError")
       /\ (IsInstance(args.content) /\ args.encoding \in Encodings) =>
             IF HasUiPrefix(args.uri) THEN RaisedError("InvalidContentError")
             ELSE RaisedError("InvalidURIError")

C6_Witness ==
    /\ RaisedError("InvalidContentError")
    /\ IsInstance(args.content)
    /\ args.content.cls = "RemoteDomPayload"
    /\ args.content.type = "remoteDom"
    /\ args.content.framework = "angular"
    /\ args.content.script # <<>>
    /\ args.uri = "ui://a"
    /\ args.encoding = "text"
    /\ Contains(ErrorMessage, "angular")
    /\ "mime_type" \notin DOMAIN result.locals

\* C7 (as stated): an options value whose encoding is not 'text' or 'blob',
\* or whose content.type is not rawHtml, externalUrl or remoteDom, makes
\* create_ui_resource raise ValidationError (never InvalidContentError or
\* InvalidURIError) and return nothing.
C7_UnknownEncodingOrTagFailsValidation ==
    ( /\ Created
      /\ \/ args.encoding \notin {"text", "blob"}
         \/ args.content.type \notin {"rawHtml", "externalUrl", "remoteDom"} )
    => RaisedError("ValidationError") /\ NoResource

\* C7 (amended): an options value whose encoding is not 'text' or 'blob', or
\* whose content is a dict with a type that is not rawHtml, externalUrl or
\* remoteDom, makes create_ui_resource raise ValidationError (never
\* InvalidContentError or InvalidURIError) and return nothing.  A content
\* that is a payload instance with such a type is not validated again: with
\* a valid encoding the call raises InvalidURIError for a uri without the
\* prefix and InvalidContentError otherwise, and returns nothing.
C7_UnknownEncodingOrDictTagFailsValidation ==
    Created =>
        /\ ( \/ args.encoding \notin {"text", "blob"}
             \/ /\ ~IsInstance(args.content)
                /\ args.content.type \notin
                      {"rawHtml", "externalUrl", "remoteDom"} )
           => RaisedError("ValidationError") /\ NoResource
        /\ ( /\ args.encoding \in {"text", "blob"}
             /\ IsInstance(args.content)
             /\ args.content.type \notin
                   {"rawHtml", "externalUrl", "remoteDom"} )
           => /\ NoResource
              /\ IF HasUiPrefix(args.uri)
                 THEN RaisedError("InvalidContentError")
                 ELSE RaisedError("InvalidURIError")

C7_Witness ==
    /\ RaisedError("ValidationError")
    /\ args.encoding = "base64"
    /\ IsVariant(args.content)
    /\ ContentString(args.content) = <<>>
    /\ ~HasUiPrefix(args.uri)

\* Exactly one of text and blob, the one the encoding names.
CarriesOnly(field, encoding) ==
    args.encoding = encoding => DOMAIN Resource \cap {"text", "blob"} = {field}

\* What follows 'ui://' holds no space, '.' or ':'.
IsPlainUri(uri) ==
    /\ HasUiPrefix(uri)
    /\ \A i \in 6..Len(uri) : Char(uri, i) \notin {" ", ".", ":"}

\* C8 as stated: whenever create_ui_resource returns, the result is an
\* envelope of type 'resource' whose resource carries the input uri
\* unchanged, the derived mimeType, and exactly one of text and blob: text
\* for encoding 'text', blob for encoding 'blob'.
C8_EnvelopeCarriesUriUnchanged ==
    Returned =>
        /\ result.value[1].type = "resource"
        /\ Resource.uri = args.uri
        /\ Resource.mimeType = result.locals.mime_type
        /\ CarriesOnly("text", "text")
        /\ CarriesOnly("blob", "blob")

\* C8 amended: the resource carries the input uri as the URL parser
\* serialises it, a uri with the prefix 'ui://' and no space in it that is
\* the input itself when the input is plain, and otherwise may differ from
\* it; the rest as stated.
C8_EnvelopeCarriesParsedUri ==
    Returned =>
        /\ result.value[1].type = "resource"
        /\ HasUiPrefix(Resource.uri)
        /\ (IsPlainUri(args.uri) => Resource.uri = args.uri)
        /\ ~Contains(Resource.uri, " ")
        /\ Resource.mimeType = result.locals.mime_type
        /\ CarriesOnly("text", "text")
        /\ CarriesOnly("blob", "blob")

C8_Witness ==
    /\ Returned
    /\ args.encoding = "blob"
    /\ args.uri = "ui://a:"
    /\ Resource.uri = "ui://a"
    /\ DOMAIN Resource = {"uri", "mimeType", "blob", "meta"}

\* C9: whenever create_ui_resource raises InvalidURIError, the message
\* contains the rejected uri verbatim.
C9_InvalidUriMessageEchoesUri ==
    RaisedError("InvalidURIError") => Contains(ErrorMessage, args.uri)

C9_Witness ==
    /\ RaisedError("InvalidURIError")
    /\ args.uri = "invalid://a"
    /\ Contains(ErrorMessage, "invalid://a")

\* C10: each of the five action-result constructors returns, for every
\* argument value (empty strings and empty params included), a value whose
\* fields are exactly type, payload and messageId: type is the variant's tag,
\* payload holds the arguments unchanged under the variant's field names, and
\* messageId is None.
C10_ConstructorsBuildTaggedValue ==
    (pc = "done" /\ op \in ConstructorOps) =>
        /\ result.status = "returned"
        /\ DOMAIN result.value[1] = {"type", "payload", "messageId"}
        /\ result.value[1].messageId = None
        /\ op = "ui_action_result_tool_call" =>
              /\ result.value[1].type = "tool"
              /\ result.value[1].payload =
                    [toolName |-> args.tool_name, params |-> args.params]
        /\ op = "ui_action_result_prompt" =>
              /\ result.value[1].type = "prompt"
              /\ result.value[1].payload = [prompt |-> args.prompt]
        /\ op = "ui_action_result_link" =>
              /\ result.value[1].type = "link"
              /\ result.value[1].payload = [url |-> args.url]
        /\ op = "ui_action_result_intent" =>
              /\ result.value[1].type = "intent"
              /\ result.value[1].payload =
                    [intent |-> args.intent, params |-> args.params]
        /\ op = "ui_action_result_notification" =>
              /\ result.value[1].type = "notify"
              /\ result.value[1].payload = [message |-> args.message]

C10_Witness ==
    /\ pc = "done"
    /\ op = "ui_action_result_intent"
    /\ args.intent = ""
    /\ args.params = <<>>
    /\ result.value[1].payload = [intent |-> "", params |-> <<>>]

C12_DefectiveTextRaisesValueError ==
    Deserialized =>
        LET text == result.locals.json_str
        IN  (\/ IsMalformedJson(text)
             \/ IsNoObject(text)
             \/ LacksKey(text)
             \/ HasUnknownType(text)
             \/ PayloadLacksField(text)) =>
                /\ result.status = "raised"
                /\ result.exc[1].type \in ValueErrors
                /\ result.value = None

C12_Witness ==
    /\ Deserialized
    /\ PayloadLacksField(args.json_str)
    /\ ObjectOf(args.json_str).type = PyStr("tool")
    /\ DOMAIN ObjectOf(args.json_str).payload.d = {"toolName"}
    /\ result.status = "raised"
    /\ result.exc[1].type = "ValidationError"

\* C13: create_ui_resource returns a UIResource if and only if the options
\* pass schema validation, the uri starts with 'ui://' and the content's
\* required string is non-empty; in every other case it raises exactly one of
\* the schema validation error, InvalidURIError and InvalidContentError, no
\* other kind of failure, and no resource, not even a partial one, comes back.
C13_ReturnsIffThreeChecksPass ==
    Created =>
        LET passes == /\ SchemaValid(args)
                      /\ HasUiPrefix(args.uri)
                      /\ ValidatedContentString(args) # <<>>
        IN  /\ Returned <=> passes
            /\ ~Returned =>
                  /\ result.status = "raised"
                  /\ result.exc[1].type \in DocumentedErrors
                  /\ NoResource

\* C14 (as stated): create_ui_resource reports only the first failure in the
\* order schema validation, uri prefix, content emptiness, encoding: an input
\* with a uri without 'ui://' and an empty content string raises
\* InvalidURIError, and an input with a uri without 'ui://' and an invalid
\* encoding, framework or content.type raises the schema's ValidationError.
C14_FirstFailureIsReported ==
    Created =>
        /\ ( /\ ~HasUiPrefix(args.uri)
             /\ IsOptions(args)
             /\ ContentString(args.content) = <<>> )
           => RaisedError("InvalidURIError")
        /\ ( /\ ~HasUiPrefix(args.uri)
             /\ \/ args.encoding \notin {"text", "blob"}
                \/ HasUnknownFramework(args.content)
                \/ HasUnknownTag(args.content) )
           => RaisedError("ValidationError")

\* C14 (amended): create_ui_resource reports only the first failure in the
\* order schema validation, uri prefix, content checks, encoding.  Options
\* that fail the schema raise ValidationError before anything else is bound;
\* options that pass it with a uri without 'ui://' raise InvalidURIError
\* before the content is looked at, an empty content string included; with
\* the prefix, an empty content string raises InvalidContentError before the
\* encoding is looked at; only a call that got to the encoding fails in
\* another way.  An invalid encoding, or an invalid framework or type of a
\* content given as a dict, fails the schema, so with a uri without 'ui://'
\* it raises ValidationError; the same fault in a payload instance does not
\* fail the schema, and the call raises InvalidURIError.
C14_FirstFailureInOrder ==
    Created =>
        /\ ~SchemaValid(args) =>
              /\ RaisedError("ValidationError")
              /\ "options" \notin DOMAIN result.locals
        /\ (SchemaValid(args) /\ ~HasUiPrefix(args.uri)) =>
              /\ RaisedError("InvalidURIError")
              /\ "content" \notin DOMAIN result.locals
        /\ ( /\ SchemaValid(args) /\ HasUiPrefix(args.uri)
             /\ ValidatedContentString(args) = <<>> ) =>
              /\ RaisedError("InvalidContentError")
              /\ "encoding" \notin DOMAIN result.locals
        /\ ( /\ result.status = "raised"
             /\ "options" \in DOMAIN result.locals
             /\ result.exc[1].type \notin
                   {"InvalidURIError", "InvalidContentError"} ) =>
              "encoding" \in DOMAIN result.locals
        /\ ( /\ ~HasUiPrefix(args.uri)
             /\ \/ args.encoding \notin {"text", "blob"}
                \/ /\ ~IsInstance(args.content)
                   /\ \/ HasUnknownFramework(args.content)
                      \/ HasUnknownTag(args.content) ) =>
              RaisedError("ValidationError")
        /\ ( /\ ~HasUiPrefix(args.uri)
             /\ args.encoding \in {"text", "blob"}
             /\ IsInstance(args.content) ) =>
              RaisedError("InvalidURIError")

C14_Witness ==
    /\ RaisedError("InvalidURIError")
    /\ args.uri = "invalid://a"
    /\ IsOptions(args)
    /\ ContentString(args.content) = <<>>
    /\ "options" \in DOMAIN result.locals
    /\ "content" \notin DOMAIN result.locals

\* C15 (as stated): for no input dictionary does create_ui_resource raise
\* InvalidContentError from a defensive branch (unrecognised content.type,
\* payload-class mismatch, framework outside {react, webcomponents},
\* unrecognised encoding): every InvalidContentError raised is the one for an
\* empty required string.
C15_OnlyEmptyStringInvalidContent ==
    RaisedError("InvalidContentError") =>
        /\ Contains(ErrorMessage, "must be provided as a non-empty string")
        /\ ValidatedContentString(args) = <<>>

\* C15 (amended): for no input dictionary does create_ui_resource raise
\* InvalidContentError for an unrecognised encoding, and for no input
\* dictionary whose content is itself a dict does it raise InvalidContentError
\* from any defensive branch: there the only InvalidContentError is the one
\* for an empty required string.  The branches for an unrecognised type, a
\* payload-class mismatch and a framework outside {react, webcomponents} are
\* reached only by a content that is a payload instance.
C15_DefensiveBranchesNeedAnInstance ==
    RaisedError("InvalidContentError") =>
        /\ ~Contains(ErrorMessage, "Invalid encoding type")
        /\ ~IsInstance(args.content) =>
              /\ Contains(ErrorMessage,
                          "must be provided as a non-empty string")
              /\ ValidatedContentString(args) = <<>>
        /\ ~Contains(ErrorMessage, "must be provided as a non-empty string")
              => IsInstance(args.content)

C15_Witness ==
    /\ RaisedError("InvalidContentError")
    /\ IsInstance(args.content)
    /\ args.content.cls = "RawHtmlPayload"
    /\ args.content.type = "externalUrl"
    /\ args.content.htmlString # <<>>
    /\ ErrorMessage =
          "Content must be ExternalUrlPayload when type is 'externalUrl'"

\* The messageId a JSON object gives: its string, None for null and for a
\* missing key.
JsonMessageId(obj) ==
    IF "messageId" \notin DOMAIN obj \/ obj.messageId.t = "none" THEN None
    ELSE Some(obj.messageId.s)

\* The payload holds the variant's fields, with the values of the JSON
\* payload.
PayloadMatches(payload, tag, json_payload) ==
    /\ DOMAIN payload = RequiredPayloadFields(tag)
    /\ \A field \in DOMAIN payload :
          /\ field \in DOMAIN json_payload
          /\ IF field = "params"
             THEN json_payload[field] = PyDict(payload[field])
             ELSE json_payload[field] = PyStr(payload[field])

\* C16: whenever deserialize_ui_action_result returns a value, its variant is
\* the one the 'type' field of the JSON object selects (one of tool, prompt,
\* link, intent, notify), its payload has that variant's fields with the
\* values of the JSON payload, and its messageId is the JSON messageId, None
\* when the key is missing or null.
C16_ReturnedVariantFollowsType ==
    (Deserialized /\ result.status = "returned") =>
        LET text  == result.locals.json_str
            value == result.value[1]
        IN  /\ HasKnownType(text)
            /\ DOMAIN value = {"type", "payload", "messageId"}
            /\ value.type = ObjectOf(text).type.s
            /\ ObjectOf(text).payload.t = "dict"
            /\ PayloadMatches(value.payload, value.type,
                              ObjectOf(text).payload.d)
            /\ value.messageId = JsonMessageId(ObjectOf(text))

C16_Witness ==
    /\ pc = "done"
    /\ op = "deserialize_ui_action_result"
    /\ result.status = "returned"
    /\ ObjectOf(args.json_str).type = PyStr("intent")
    /\ "messageId" \notin DOMAIN ObjectOf(args.json_str)
    /\ result.value[1].type = "intent"
    /\ result.value[1].payload = [intent |-> "i", params |-> [k |-> PyInt(1)]]
    /\ result.value[1].messageId = None

\* C18: validate_uri agrees with the uri check of create_ui_resource: for
\* every options value that passes the schema, create_ui_resource raises
\* InvalidURIError if and only if validate_uri(uri) is False; and
\* validate_uri returns True exactly for the strings that begin with 'ui://',
\* in that case of the letters.
C18_ValidateUriAgreesWithBuilder ==
    /\ (Created /\ SchemaValid(args)) =>
          (RaisedError("InvalidURIError") <=> ~validate_uri(args.uri))
    /\ (pc = "done" /\ op = "validate_uri") =>
          /\ result.status = "returned"
          /\ result.value[1] = HasUiPrefix(args.uri)

C18_Witness ==
    /\ RaisedError("InvalidURIError")
    /\ SchemaValid(args)
    /\ args.uri = "UI://a"
    /\ ~validate_uri(args.uri)

\* The call of caller c has returned or raised.
Finished(c) == calls[c].at > 0 /\ ~Running(calls[c].frame)

\* What a call gave: the resource it returned or the error it raised.
Outcome(f) == [status |-> f.status, exc |-> f.exc, value |-> f.value]

\* C17: in every interleaving of calls of create_ui_resource by several
\* callers, each finished call's outcome is the outcome of that call run
\* alone on the same input, two finished calls with equal inputs have equal
\* outcomes, the dict a call was passed stays what it was, and no step of a
\* call changes the dicts the callers hold.
C17_InterleavedCallsAreIndependent ==
    /\ [](pc = "interleaved" =>
             \A c \in Callers :
                /\ calls[c].at > 0 =>
                      calls[c].frame.locals.options_dict = heap[calls[c].ref]
                /\ Finished(c) =>
                      /\ calls[c].frame =
                            create_ui_resource(heap[calls[c].ref])
                      /\ \A c2 \in Callers :
                            ( /\ Finished(c2)
                              /\ heap[calls[c2].ref] = heap[calls[c].ref] )
                            => Outcome(calls[c2].frame) =
                                 Outcome(calls[c].frame))
    /\ [][heap' = heap]_vars

C17_Witness ==
    /\ pc = "interleaved"
    /\ calls[1].ref = calls[2].ref
    /\ Finished(1) /\ Finished(2)
    /\ calls[1].frame.status = "returned"
    /\ DOMAIN calls[1].frame.value[1].resource =
          {"uri", "mimeType", "blob", "meta"}
    /\ calls[2].frame = calls[1].frame
    /\ heap["d1"] # heap["d2"]

====
